---- MODULE Spec2Model ----
(***************************************************************************)
(* A model of the Retry unit (@synet/retry): Retry.create, Retry.retry     *)
(* with its attempt loop, the retryable-error classifier, the delay        *)
(* calculation, the per-call merge of options and the statistics kept in   *)
(* the State unit.                                                         *)
(*                                                                         *)
(* A call to retry is an async function: it runs without interruption      *)
(* between two await points (await operation(), await this.sleep(delay)).  *)
(* Each action below is one such uninterrupted run of one call.  Strings   *)
(* that the code inspects (error messages) are sequences of characters.    *)
(***************************************************************************)
EXTENDS Integers, Sequences, FiniteSets, TLC

(***************************************************************************)
(* Bounds of the model.                                                    *)
(***************************************************************************)
\* number of calls to retry made on the instance (they may overlap)
NumCalls == 2
\* largest maxAttempts given to create or to a call
MaxAttempts == 3
\* Math.random() is drawn from {0, 1/RandDen, ..., (RandDen-1)/RandDen}
RandDen == 3

Calls == 1..NumCalls

(***************************************************************************)
(* Strings as character sequences.                                         *)
(***************************************************************************)
UpperToLower ==
  ("A" :> "a") @@ ("B" :> "b") @@ ("C" :> "c") @@ ("D" :> "d") @@ ("E" :> "e") @@
  ("F" :> "f") @@ ("G" :> "g") @@ ("H" :> "h") @@ ("I" :> "i") @@ ("J" :> "j") @@
  ("K" :> "k") @@ ("L" :> "l") @@ ("M" :> "m") @@ ("N" :> "n") @@ ("O" :> "o") @@
  ("P" :> "p") @@ ("Q" :> "q") @@ ("R" :> "r") @@ ("S" :> "s") @@ ("T" :> "t") @@
  ("U" :> "u") @@ ("V" :> "v") @@ ("W" :> "w") @@ ("X" :> "x") @@ ("Y" :> "y") @@
  ("Z" :> "z")

\* String.prototype.toLowerCase
toLowerCase(s) ==
  [i \in DOMAIN s |-> IF s[i] \in DOMAIN UpperToLower THEN UpperToLower[s[i]] ELSE s[i]]

\* String.prototype.includes
includes(s, pattern) ==
  \E i \in 0..(Len(s) - Len(pattern)) : SubSeq(s, i + 1, i + Len(pattern)) = pattern

\* Array.prototype.includes / Set.prototype.has on a list of codes
has(list, x) == \E i \in DOMAIN list : list[i] = x

RECURSIVE Dedup(_)
\* new Set(array): the elements in insertion order, duplicates dropped
Dedup(list) ==
  IF list = <<>> THEN <<>>
  ELSE LET front == Dedup(SubSeq(list, 1, Len(list) - 1))
           x == list[Len(list)]
       IN  IF has(front, x) THEN front ELSE Append(front, x)

(***************************************************************************)
(* Values the operation may throw.  isError tells an Error from any other  *)
(* thrown value; text is the Error's message, or String(value) otherwise;  *)
(* code is the value's code property ("" when it has none).                *)
(***************************************************************************)
TemporaryFailure == [isError |-> TRUE, code |-> "", text |-> "Temporary failure"]
InvalidCredentials ==
  [isError |-> TRUE, code |-> "", text |-> "Invalid authentication credentials"]
LookupFailed == [isError |-> TRUE, code |-> "ENOTFOUND", text |-> "lookup failed"]
CustomFailure == [isError |-> TRUE, code |-> "ECUSTOM", text |-> "custom failure"]
TimeoutString == [isError |-> FALSE, code |-> "", text |-> "timeout"]

ThrownValues ==
  {TemporaryFailure, InvalidCredentials, LookupFailed, CustomFailure, TimeoutString}

\* the characters of each message string
Chars ==
  ("Temporary failure" :>
     <<"T","e","m","p","o","r","a","r","y"," ","f","a","i","l","u","r","e">>) @@
  ("Invalid authentication credentials" :>
     <<"I","n","v","a","l","i","d"," ","a","u","t","h","e","n","t","i","c","a","t","i","o","n"," ","c","r","e","d","e","n","t","i","a","l","s">>) @@
  ("lookup failed" :>
     <<"l","o","o","k","u","p"," ","f","a","i","l","e","d">>) @@
  ("custom failure" :>
     <<"c","u","s","t","o","m"," ","f","a","i","l","u","r","e">>) @@
  ("timeout" :>
     <<"t","i","m","e","o","u","t">>)

(***************************************************************************)
(* RetryConfig: every field is optional.  given is the set of fields that  *)
(* are present (not undefined); the other fields hold a filler.            *)
(***************************************************************************)
EmptyConfig ==
  [given |-> {}, maxAttempts |-> 0, baseDelay |-> 0, maxDelay |-> 0, jitter |-> FALSE,
   backoffMultiplier |-> 0, retryableErrors |-> <<>>]

\* a ?? b for field f of a partial RetryConfig
Coalesce(partial, f, default) == IF f \in partial.given THEN partial[f] ELSE default

\* configurations given to Retry.create
CreateConfigs ==
  {EmptyConfig}
  \cup {[EmptyConfig EXCEPT !.given = {"maxAttempts", "jitter"}, !.maxAttempts = n,
                            !.jitter = FALSE] : n \in 0..MaxAttempts}
  \cup {[EmptyConfig EXCEPT !.given = {"maxAttempts", "baseDelay"}, !.maxAttempts = 2,
                            !.baseDelay = 10]}
  \cup {[EmptyConfig EXCEPT !.given = {"maxAttempts", "baseDelay", "maxDelay", "jitter",
                                       "backoffMultiplier"},
                            !.maxAttempts = 4, !.baseDelay = 100, !.maxDelay = 5000,
                            !.jitter = FALSE, !.backoffMultiplier = 2]}
  \cup {[EmptyConfig EXCEPT !.given = {"maxDelay", "jitter"}, !.maxDelay = 150,
                            !.jitter = j] : j \in BOOLEAN}
  \cup {[EmptyConfig EXCEPT !.given = {"jitter", "retryableErrors"}, !.jitter = FALSE,
                            !.retryableErrors = <<"ECUSTOM", "ECUSTOM">>]}

\* customOptions given to Retry.retry (EmptyConfig: none given)
CallOptions ==
  {EmptyConfig}
  \cup {[EmptyConfig EXCEPT !.given = {"maxAttempts"}, !.maxAttempts = n] :
          n \in 0..MaxAttempts}
  \cup {[EmptyConfig EXCEPT !.given = {"baseDelay", "maxDelay", "backoffMultiplier", "jitter"},
                            !.baseDelay = 10, !.maxDelay = 25, !.backoffMultiplier = 3,
                            !.jitter = FALSE]}
  \cup {[EmptyConfig EXCEPT !.given = {"retryableErrors"},
                            !.retryableErrors = <<"ECUSTOM">>]}

(***************************************************************************)
(* The callers.  Either one call with any of the options and any of the    *)
(* thrown values, on an instance created from any of the configurations;   *)
(* or NumCalls overlapping calls, each with the instance's maxAttempts or   *)
(* with its own (0, 1 or 2), whose operations resolve, throw a retryable   *)
(* error or throw a non-retryable one.                                     *)
(***************************************************************************)
SingleCall ==
  [calls |-> {1}, configs |-> CreateConfigs, options |-> CallOptions,
   thrown |-> ThrownValues]

OverlappingCalls ==
  [calls |-> Calls,
   configs |-> {cfg \in CreateConfigs : cfg.given = {"maxAttempts", "jitter"}},
   options |-> {o \in CallOptions : o.given \subseteq {"maxAttempts"} /\ o.maxAttempts <= 2},
   thrown |-> {TemporaryFailure, InvalidCredentials}]

Workloads == {"SingleCall", "OverlappingCalls"}

Workload(name) == IF name = "SingleCall" THEN SingleCall ELSE OverlappingCalls

(***************************************************************************)
(* State.                                                                  *)
(***************************************************************************)
VARIABLES
  props,          \* this.props: the instance's policy (RetryProps without dna, state)
  state,          \* this.props.state: the State unit holding the counters
  pc,             \* per call: "idle", "operation" (awaiting operation()),
                  \*           "sleep" (awaiting sleep(delay)), "done"
  customOptions,  \* per call: the customOptions argument
  config,         \* per call: the local config = mergeOptions(customOptions)
  attempt,        \* per call: the loop variable
  errors,         \* per call: the local errors array
  outcome,        \* per call: what the call returned or threw
  invoked,        \* per call (history): number of invocations of operation
  settled,        \* per call (history): how each invocation ended, in order
  sleeps,         \* per call (history): the delays given to sleep, in order
  added,          \* per call (history): what the call's own steps added to each counter
  workload,       \* the callers of the instance, by name: which calls they make, with
                  \* which options, and what their operations throw (never changes)
  createdWith,    \* (history) the config that was given to Retry.create
  classified,     \* per call (history): the attempts whose error was passed to
                  \* isRetryableError
  stats           \* the snapshot the last getStats() returned, while no step of
                  \* retry has run since

vars == <<props, state, pc, customOptions, config, attempt, errors, outcome,
          invoked, settled, sleeps, added, workload, createdWith, classified,
          stats>>

Counters == {"totalOperations", "totalRetries", "successfulOperations", "failedOperations"}

\* Retry.create(config): the props of the new instance
Create(cfg) ==
  [maxAttempts |-> Coalesce(cfg, "maxAttempts", 3),
   baseDelay |-> Coalesce(cfg, "baseDelay", 100),
   maxDelay |-> Coalesce(cfg, "maxDelay", 5000),
   jitter |-> Coalesce(cfg, "jitter", TRUE),
   backoffMultiplier |-> Coalesce(cfg, "backoffMultiplier", 2),
   retryableErrors |->
     Dedup(Coalesce(cfg, "retryableErrors",
                    <<"ECONNRESET", "ETIMEDOUT", "ENOTFOUND", "EHOSTUNREACH">>))]

\* State.create({initialState: ...}) in Retry.create
InitialState ==
  [totalOperations |-> 0, totalRetries |-> 0, successfulOperations |-> 0,
   failedOperations |-> 0, averageAttempts |-> 0]

\* mergeOptions that leaves maxAttempts out of the merge
mergeOptionsKeepsMaxAttempts(custom, p) ==
  [maxAttempts |-> p.maxAttempts,
   baseDelay |-> Coalesce(custom, "baseDelay", p.baseDelay),
   maxDelay |-> Coalesce(custom, "maxDelay", p.maxDelay),
   jitter |-> Coalesce(custom, "jitter", p.jitter),
   backoffMultiplier |-> Coalesce(custom, "backoffMultiplier", p.backoffMultiplier),
   retryableErrors |-> Coalesce(custom, "retryableErrors", p.retryableErrors)]

\* Retry.mergeOptions
mergeOptions(custom, p) ==
  [maxAttempts |-> Coalesce(custom, "maxAttempts", p.maxAttempts),
   baseDelay |-> Coalesce(custom, "baseDelay", p.baseDelay),
   maxDelay |-> Coalesce(custom, "maxDelay", p.maxDelay),
   jitter |-> Coalesce(custom, "jitter", p.jitter),
   backoffMultiplier |-> Coalesce(custom, "backoffMultiplier", p.backoffMultiplier),
   retryableErrors |-> Coalesce(custom, "retryableErrors", p.retryableErrors)]

\* every caught value wrapped anew: new Error(String(error)), its code lost
WrapErrorAlways(thrown) == [message |-> thrown.text, code |-> ""]

\* error instanceof Error ? error : new Error(String(error))
WrapError(thrown) ==
  IF thrown.isError THEN [message |-> thrown.text, code |-> thrown.code]
  ELSE [message |-> thrown.text, code |-> ""]

retryablePatterns ==
  << <<"n","e","t","w","o","r","k">>,
     <<"t","i","m","e","o","u","t">>,
     <<"c","o","n","n","e","c","t","i","o","n">>,
     <<"r","e","s","e","t">>,
     <<"r","e","f","u","s","e","d">>,
     <<"u","n","r","e","a","c","h","a","b","l","e">>,
     <<"t","e","m","p","o","r","a","r","i","l","y">>,
     <<"t","e","m","p","o","r","a","r","y">>,
     <<"r","a","t","e"," ","l","i","m","i","t">>,
     <<"5">>,
     <<"4","2","9">>,
     <<"5","0","2">>,
     <<"5","0","3">>,
     <<"5","0","4">>,
     <<"u","n","a","v","a","i","l","a","b","l","e">>,
     <<"s","e","r","v","i","c","e">> >>

\* the message half of Retry.isRetryableError
MatchesPattern(message) ==
  \E i \in DOMAIN retryablePatterns : includes(message, retryablePatterns[i])

\* isRetryableError with the code test written !code || has(code)
isRetryableErrorNoCodeMatches(error, p) ==
  LET message == toLowerCase(Chars[error.message])
      code == error.code
  IN  IF code = "" \/ has(p.retryableErrors, code) THEN TRUE
      ELSE MatchesPattern(message)

\* isRetryableError matching the patterns against the message as thrown
isRetryableErrorCaseSensitive(error, p) ==
  LET message == Chars[error.message]
      code == error.code
  IN  IF code # "" /\ has(p.retryableErrors, code) THEN TRUE
      ELSE MatchesPattern(message)

\* retryablePatterns.some(pattern => message.includes(pattern)) with
\* message = error.message.toLowerCase(), for each message string
SomePatternIncluded == [m \in DOMAIN Chars |-> MatchesPattern(toLowerCase(Chars[m]))]

\* Retry.isRetryableError: it reads this.props, never the call's config
isRetryableError(error, p) ==
  LET code == error.code
  IN  IF code # "" /\ has(p.retryableErrors, code) THEN TRUE
      ELSE SomePatternIncluded[error.message]

RECURSIVE Pow(_, _)
\* b ** e for a natural exponent
Pow(b, e) == IF e = 0 THEN 1 ELSE b * Pow(b, e - 1)

Min(a, b) == IF a <= b THEN a ELSE b
Max(a, b) == IF a >= b THEN a ELSE b

\* calculateDelay raising the multiplier to attempt instead of attempt - 1
calculateDelayExponentAttempt(a, cfg, p, rnd) ==
  LET raw == p.baseDelay * Pow(p.backoffMultiplier, a)
      capped == Min(raw, p.maxDelay)
      floored == IF p.jitter
                 THEN (capped * (20 * RandDen + 2 * rnd - RandDen)) \div (20 * RandDen)
                 ELSE capped
  IN  Max(0, floored)

\* calculateDelay adding random * jitterAmount, the draw not centred on 0.5
calculateDelayJitterUncentred(a, cfg, p, rnd) ==
  LET raw == p.baseDelay * Pow(p.backoffMultiplier, a - 1)
      capped == Min(raw, p.maxDelay)
      floored == IF p.jitter
                 THEN (capped * (10 * RandDen + rnd)) \div (10 * RandDen)
                 ELSE capped
  IN  Max(0, floored)

\* Retry.calculateDelay(attempt, config) with Math.random() = rnd / RandDen.
\* It reads this.props (p); its config parameter (cfg) is never used.
\* delay + (random - 0.5) * delay * 0.1 = delay * (20*RandDen + 2*rnd - RandDen) / (20*RandDen)
calculateDelay(a, cfg, p, rnd) ==
  LET raw == p.baseDelay * Pow(p.backoffMultiplier, a - 1)
      capped == Min(raw, p.maxDelay)
      floored == IF p.jitter
                 THEN (capped * (20 * RandDen + 2 * rnd - RandDen)) \div (20 * RandDen)
                 ELSE capped
  IN  Max(0, floored)

\* the draws of Math.random() that calculateDelay makes: none with jitter off
RandomDraws(p) == IF p.jitter THEN 0..(RandDen - 1) ELSE {0}

(***************************************************************************)
(* The statistics updates of Retry.retry.                                  *)
(***************************************************************************)
\* "Update stats" at the start of retry
CountOperation(st) == [st EXCEPT !.totalOperations = st.totalOperations + 1]

\* RecordSuccess adding the attempts, not the retries
RecordSuccessAddsAttempts(st, a) ==
  [st EXCEPT !.successfulOperations = st.successfulOperations + 1,
             !.totalRetries = st.totalRetries + a]

\* "SUCCESS - Update stats"
RecordSuccess(st, a) ==
  [st EXCEPT !.successfulOperations = st.successfulOperations + 1,
             !.totalRetries = st.totalRetries + (a - 1)]

\* RecordFailure adding the attempts, not the retries
RecordFailureAddsAttempts(st, a) ==
  [st EXCEPT !.failedOperations = st.failedOperations + 1,
             !.totalRetries = st.totalRetries + a]

\* RecordFailure counting the operation a second time
RecordFailureCountsOperation(st, a) ==
  [st EXCEPT !.failedOperations = st.failedOperations + 1,
             !.totalRetries = st.totalRetries + (a - 1),
             !.totalOperations = st.totalOperations + 1]

\* "FINAL FAILURE - Update stats" and "NON-RETRYABLE ERROR - Update stats"
RecordFailure(st, a) ==
  [st EXCEPT !.failedOperations = st.failedOperations + 1,
             !.totalRetries = st.totalRetries + (a - 1)]

\* the loop's condition written attempt < maxAttempts
LoopContinuesStrict(a, cfg) == a < cfg.maxAttempts

\* the for loop's condition
LoopContinues(a, cfg) == a <= cfg.maxAttempts

\* the last-attempt test one attempt early
IsLastAttemptEarly(a, cfg) == a + 1 >= cfg.maxAttempts

\* the last-attempt test written attempt > maxAttempts
IsLastAttemptPast(a, cfg) == a > cfg.maxAttempts

\* the last-attempt test on an attempt counter kept on the instance, where
\* every call of the instance writes it
IsLastAttemptSharedCounter(a, cfg) == \E d \in Calls : attempt[d] = cfg.maxAttempts

\* "Check if this is the last attempt"
IsLastAttempt(a, cfg) == a = cfg.maxAttempts

(***************************************************************************)
(* getStats.  A JavaScript number that is a quotient is kept as the pair   *)
(* of its numerator and denominator; a zero denominator is NaN or an       *)
(* infinity.                                                               *)
(***************************************************************************)
Ratio(n, d) == [num |-> n, den |-> d]

\* getStats dividing by totalOperations without the || 1 guard
getStatsUnguarded(p, st) ==
  [successfulOperations |-> st.successfulOperations,
   failedOperations |-> st.failedOperations,
   totalRetries |-> st.totalRetries,
   averageAttempts |-> Ratio(st.averageAttempts, 1),
   totalOperations |-> st.totalOperations,
   successRate |-> Ratio(st.successfulOperations, st.totalOperations),
   config |-> [maxAttempts |-> p.maxAttempts,
               baseDelay |-> p.baseDelay,
               maxDelay |-> p.maxDelay,
               jitter |-> p.jitter,
               backoffMultiplier |-> p.backoffMultiplier,
               retryableErrors |-> p.retryableErrors]]

\* getStats computing successRate from the failedOperations key
getStatsRateOfFailures(p, st) ==
  [successfulOperations |-> st.successfulOperations,
   failedOperations |-> st.failedOperations,
   totalRetries |-> st.totalRetries,
   averageAttempts |-> Ratio(st.averageAttempts, 1),
   totalOperations |-> st.totalOperations,
   successRate |-> Ratio(st.failedOperations,
                         IF st.totalOperations = 0 THEN 1 ELSE st.totalOperations),
   config |-> [maxAttempts |-> p.maxAttempts,
               baseDelay |-> p.baseDelay,
               maxDelay |-> p.maxDelay,
               jitter |-> p.jitter,
               backoffMultiplier |-> p.backoffMultiplier,
               retryableErrors |-> p.retryableErrors]]

\* Retry.getStats (src/unnamed/part_001): averageAttempts is read from the State
\* unit; successRate is (successfulOperations || 0) / (totalOperations || 1)
getStats(p, st) ==
  [successfulOperations |-> st.successfulOperations,
   failedOperations |-> st.failedOperations,
   totalRetries |-> st.totalRetries,
   averageAttempts |-> Ratio(st.averageAttempts, 1),
   totalOperations |-> st.totalOperations,
   successRate |-> Ratio(st.successfulOperations,
                         IF st.totalOperations = 0 THEN 1 ELSE st.totalOperations),
   config |-> [maxAttempts |-> p.maxAttempts,
               baseDelay |-> p.baseDelay,
               maxDelay |-> p.maxDelay,
               jitter |-> p.jitter,
               backoffMultiplier |-> p.backoffMultiplier,
               retryableErrors |-> p.retryableErrors]]

\* Retry.getStats (src/src/retry.unit.ts): averageAttempts and successRate are
\* computed, each guarded by totalOperations > 0; the policy is reported as
\* configuration, without retryableErrors
getStatsUnit(p, st) ==
  [totalOperations |-> st.totalOperations,
   totalRetries |-> st.totalRetries,
   successfulOperations |-> st.successfulOperations,
   failedOperations |-> st.failedOperations,
   successRate |-> IF st.totalOperations > 0
                   THEN Ratio(st.successfulOperations, st.totalOperations)
                   ELSE Ratio(0, 1),
   averageAttempts |-> IF st.totalOperations > 0
                       THEN Ratio(st.totalOperations + st.totalRetries, st.totalOperations)
                       ELSE Ratio(0, 1),
   configuration |-> [maxAttempts |-> p.maxAttempts,
                      baseDelay |-> p.baseDelay,
                      maxDelay |-> p.maxDelay,
                      jitter |-> p.jitter,
                      backoffMultiplier |-> p.backoffMultiplier]]

\* no snapshot at hand
NoSnapshot == [taken |-> FALSE]

(***************************************************************************)
(* What a call returns or throws.                                          *)
(***************************************************************************)
NoOutcome ==
  [kind |-> "none", success |-> FALSE, attempts |-> 0, errors |-> <<>>,
   template |-> "none", interpolated |-> <<>>]

\* the RetryResult reporting the retries made as its attempts
RetryResultCountsRetries(a, errs) ==
  [kind |-> "result", success |-> TRUE, attempts |-> a - 1, errors |-> errs,
   template |-> "none", interpolated |-> <<>>]

\* the RetryResult returned on success (totalDelay and timestamp left out)
RetryResult(a, errs) ==
  [kind |-> "result", success |-> TRUE, attempts |-> a, errors |-> errs,
   template |-> "none", interpolated |-> <<>>]

Messages(errs) == [i \in DOMAIN errs |-> errs[i].message]

\* the exhaustion error naming the first error of the call as the last one
ExhaustedErrorNamesFirst(a, err, errs) ==
  [kind |-> "error", success |-> FALSE, attempts |-> 0, errors |-> <<>>,
   template |-> "Operation failed after",
   interpolated |-> <<[attempt |-> a, messages |-> <<errs[1].message>>],
                      [attempt |-> 0, messages |-> Messages(errs)]>>]

\* new Error(`Operation failed after ${attempt} attempts. Last error: ${err.message}.
\*            All errors: ${errors.map(e => e.message).join(', ')}`)
ExhaustedError(a, err, errs) ==
  [kind |-> "error", success |-> FALSE, attempts |-> 0, errors |-> <<>>,
   template |-> "Operation failed after",
   interpolated |-> <<[attempt |-> a, messages |-> <<err.message>>],
                      [attempt |-> 0, messages |-> Messages(errs)]>>]

\* new Error(`Non-retryable error: ${err.message}`)
NonRetryableError(err) ==
  [kind |-> "error", success |-> FALSE, attempts |-> 0, errors |-> <<>>,
   template |-> "Non-retryable error",
   interpolated |-> <<[attempt |-> 0, messages |-> <<err.message>>]>>]

\* new Error(`Unexpected retry loop completion`)
UnexpectedError ==
  [kind |-> "error", success |-> FALSE, attempts |-> 0, errors |-> <<>>,
   template |-> "Unexpected retry loop completion", interpolated |-> <<>>]

(***************************************************************************)
(* History bookkeeping.                                                    *)
(***************************************************************************)
NoneAdded == [k \in Counters |-> 0]

\* what one step changed in the counters, added to the call's own tally
Tally(old, before, after) == [k \in Counters |-> old[k] + (after[k] - before[k])]

Resolved == [ok |-> TRUE, thrown |-> TemporaryFailure]
Rejected(v) == [ok |-> FALSE, thrown |-> v]

(***************************************************************************)
(* Initial state: a fresh instance from Retry.create, no call made yet.    *)
(***************************************************************************)
Init ==
  /\ workload \in Workloads
  /\ createdWith \in Workload(workload).configs
  /\ props = Create(createdWith)
  /\ state = InitialState
  /\ pc = [c \in Calls |-> "idle"]
  /\ customOptions = [c \in Calls |-> EmptyConfig]
  /\ config = [c \in Calls |-> mergeOptions(EmptyConfig, props)]
  /\ attempt = [c \in Calls |-> 0]
  /\ errors = [c \in Calls |-> <<>>]
  /\ outcome = [c \in Calls |-> NoOutcome]
  /\ invoked = [c \in Calls |-> 0]
  /\ settled = [c \in Calls |-> <<>>]
  /\ sleeps = [c \in Calls |-> <<>>]
  /\ added = [c \in Calls |-> NoneAdded]
  /\ stats = NoSnapshot
  /\ classified = [c \in Calls |-> {}]

(***************************************************************************)
(* retry(operation, customOptions) up to its first await: merge the        *)
(* options, count the operation, enter the loop and invoke operation().    *)
(***************************************************************************)
Start(c, custom) ==
  /\ c \in Workload(workload).calls
  /\ custom \in Workload(workload).options
  /\ pc[c] = "idle"
  /\ LET cfg == mergeOptions(custom, props)
         st == CountOperation(state)
     IN  /\ customOptions' = [customOptions EXCEPT ![c] = custom]
         /\ config' = [config EXCEPT ![c] = cfg]
         /\ state' = st
         /\ added' = [added EXCEPT ![c] = Tally(added[c], state, st)]
         /\ attempt' = [attempt EXCEPT ![c] = 1]
         /\ IF LoopContinues(1, cfg)
            THEN /\ invoked' = [invoked EXCEPT ![c] = invoked[c] + 1]
                 /\ pc' = [pc EXCEPT ![c] = "operation"]
                 /\ outcome' = outcome
            ELSE /\ invoked' = invoked
                 /\ pc' = [pc EXCEPT ![c] = "done"]
                 /\ outcome' = [outcome EXCEPT ![c] = UnexpectedError]
  /\ stats' = NoSnapshot
  /\ UNCHANGED <<props, errors, settled, sleeps, workload, createdWith, classified>>

(***************************************************************************)
(* operation() resolves: update the statistics and return the result.      *)
(***************************************************************************)
OperationResolves(c) ==
  /\ pc[c] = "operation"
  /\ LET st == RecordSuccess(state, attempt[c])
     IN  /\ state' = st
         /\ added' = [added EXCEPT ![c] = Tally(added[c], state, st)]
  /\ outcome' = [outcome EXCEPT ![c] = RetryResult(attempt[c], errors[c])]
  /\ settled' = [settled EXCEPT ![c] = Append(settled[c], Resolved)]
  /\ pc' = [pc EXCEPT ![c] = "done"]
  /\ stats' = NoSnapshot
  /\ UNCHANGED <<props, customOptions, config, attempt, errors, invoked, sleeps, workload,
               createdWith, classified>>

(***************************************************************************)
(* operation() rejects with thrown: the catch block, up to the throw or    *)
(* to await this.sleep(delay).                                             *)
(***************************************************************************)
OperationRejects(c, thrown, rnd) ==
  /\ pc[c] = "operation"
  /\ thrown \in Workload(workload).thrown
  /\ rnd \in RandomDraws(props)
  /\ LET err == WrapError(thrown)
         errs == Append(errors[c], err)
         a == attempt[c]
     IN  /\ errors' = [errors EXCEPT ![c] = errs]
         /\ settled' = [settled EXCEPT ![c] = Append(settled[c], Rejected(thrown))]
         /\ IF IsLastAttempt(a, config[c])
            THEN LET st == RecordFailure(state, a)
                 IN  /\ state' = st
                     /\ added' = [added EXCEPT ![c] = Tally(added[c], state, st)]
                     /\ outcome' = [outcome EXCEPT ![c] = ExhaustedError(a, err, errs)]
                     /\ pc' = [pc EXCEPT ![c] = "done"]
                     /\ sleeps' = sleeps
            ELSE IF ~isRetryableError(err, props)
            THEN LET st == RecordFailure(state, a)
                 IN  /\ state' = st
                     /\ added' = [added EXCEPT ![c] = Tally(added[c], state, st)]
                     /\ outcome' = [outcome EXCEPT ![c] = NonRetryableError(err)]
                     /\ pc' = [pc EXCEPT ![c] = "done"]
                     /\ sleeps' = sleeps
            ELSE /\ sleeps' = [sleeps EXCEPT ![c] =
                                 Append(sleeps[c], calculateDelay(a, config[c], props, rnd))]
                 /\ pc' = [pc EXCEPT ![c] = "sleep"]
                 /\ UNCHANGED <<state, added, outcome>>
  /\ classified' = IF IsLastAttempt(attempt[c], config[c]) THEN classified
                   ELSE [classified EXCEPT ![c] = classified[c] \cup {attempt[c]}]
  /\ stats' = NoSnapshot
  /\ UNCHANGED <<props, customOptions, config, attempt, invoked, workload, createdWith>>

\* the loop going on to the next attempt without awaiting: neither the
\* sleep's timer nor the invocation in flight holds it back
SleepElapsesWithoutAwait(c) ==
  /\ pc[c] \in {"sleep", "operation"}
  /\ attempt' = [attempt EXCEPT ![c] = attempt[c] + 1]
  /\ IF LoopContinues(attempt[c] + 1, config[c])
     THEN /\ invoked' = [invoked EXCEPT ![c] = invoked[c] + 1]
          /\ pc' = [pc EXCEPT ![c] = "operation"]
          /\ outcome' = outcome
     ELSE /\ invoked' = invoked
          /\ pc' = [pc EXCEPT ![c] = "done"]
          /\ outcome' = [outcome EXCEPT ![c] = UnexpectedError]
  /\ stats' = NoSnapshot
  /\ UNCHANGED <<props, state, customOptions, config, errors, settled, sleeps, added,
                 workload, createdWith, classified>>

(***************************************************************************)
(* The sleep's timer fires: attempt++, test the loop condition and invoke  *)
(* operation() again.                                                      *)
(***************************************************************************)
SleepElapses(c) ==
  /\ pc[c] = "sleep"
  /\ attempt' = [attempt EXCEPT ![c] = attempt[c] + 1]
  /\ IF LoopContinues(attempt[c] + 1, config[c])
     THEN /\ invoked' = [invoked EXCEPT ![c] = invoked[c] + 1]
          /\ pc' = [pc EXCEPT ![c] = "operation"]
          /\ outcome' = outcome
     ELSE /\ invoked' = invoked
          /\ pc' = [pc EXCEPT ![c] = "done"]
          /\ outcome' = [outcome EXCEPT ![c] = UnexpectedError]
  /\ stats' = NoSnapshot
  /\ UNCHANGED <<props, state, customOptions, config, errors, settled, sleeps, added,
               workload, createdWith, classified>>

\* getStats() that counts itself as an operation
GetStatsCountsOperation ==
  /\ state' = CountOperation(state)
  /\ stats' = getStats(props, state')
  /\ UNCHANGED <<props, pc, customOptions, config, attempt, errors, outcome, invoked,
                 settled, sleeps, added, workload, createdWith, classified>>

(***************************************************************************)
(* getStats(): a caller takes a snapshot, at any time between the steps of *)
(* the calls.                                                              *)
(***************************************************************************)
GetStats ==
  /\ stats' = getStats(props, state)
  /\ UNCHANGED <<props, state, pc, customOptions, config, attempt, errors, outcome,
                 invoked, settled, sleeps, added, workload, createdWith, classified>>

Next ==
  \/ \E c \in Calls, custom \in CallOptions : Start(c, custom)
  \/ \E c \in Calls : OperationResolves(c)
  \/ \E c \in Calls, thrown \in ThrownValues, rnd \in 0..(RandDen - 1) :
       OperationRejects(c, thrown, rnd)
  \/ \E c \in Calls : SleepElapses(c)
  \/ GetStats

Spec == Init /\ [][Next]_vars

(***************************************************************************)
(* The callers' side of termination: the promise that a call awaits is     *)
(* settled in the end.  operation() resolves or rejects, or the timer of   *)
(* sleep fires (a call awaits one promise at a time).                      *)
(***************************************************************************)
AwaitSettles(c) ==
  \/ OperationResolves(c)
  \/ \E thrown \in ThrownValues, rnd \in 0..(RandDen - 1) : OperationRejects(c, thrown, rnd)
  \/ SleepElapses(c)

FairSpec == Spec /\ \A c \in Calls : WF_vars(AwaitSettles(c))

(***************************************************************************)
(* Properties of Retry.retry.  A failure counts as retryable when the      *)
(* classifier, as retry consults it, says so.                              *)
(***************************************************************************)
Done(c) == pc[c] = "done"

\* the i-th invocation of call c rejected, and the classifier accepts the error
RetryableFailure(c, i) ==
  /\ ~settled[c][i].ok
  /\ isRetryableError(WrapError(settled[c][i].thrown), props)

\* the i-th invocation of call c rejected, and the classifier refuses the error
NonRetryableFailure(c, i) ==
  /\ ~settled[c][i].ok
  /\ ~isRetryableError(WrapError(settled[c][i].thrown), props)

\* every invocation of call c so far has ended, each in a retryable failure
AlwaysFailedRetryably(c) ==
  /\ invoked[c] = Len(settled[c])
  /\ \A i \in DOMAIN settled[c] : RetryableFailure(c, i)

Exhausted(c) == outcome[c].template = "Operation failed after"
NonRetryable(c) == outcome[c].template = "Non-retryable error"
Unexpected(c) == outcome[c].template = "Unexpected retry loop completion"
Returned(c) == outcome[c].kind = "result"

\* C1: with effective maxAttempts n >= 1, a call whose operation has failed
\* retryably on every invocation invokes it at most n times; once it has
\* done so n times the call has thrown the exhaustion error naming n
\* attempts, has collected n errors, and has added n-1 to totalRetries and
\* 1 to failedOperations; before that it has thrown nothing.
C1_ExhaustsAfterMaxAttempts ==
  \A c \in Calls :
    (config[c].maxAttempts >= 1 /\ pc[c] # "idle" /\ AlwaysFailedRetryably(c)) =>
      LET n == config[c].maxAttempts
      IN  /\ invoked[c] <= n
          /\ invoked[c] < n => pc[c] = "sleep" /\ outcome[c] = NoOutcome
          /\ invoked[c] = n =>
               /\ Done(c) /\ Exhausted(c)
               /\ outcome[c].interpolated[1].attempt = n
               /\ Len(errors[c]) = n
               /\ added[c].totalRetries = n - 1
               /\ added[c].failedOperations = 1
               /\ added[c].successfulOperations = 0

C1_Witness ==
  \E c \in Calls :
    /\ config[c].maxAttempts = MaxAttempts
    /\ Done(c) /\ Exhausted(c) /\ AlwaysFailedRetryably(c)
    /\ \E i \in DOMAIN settled[c] : settled[c][i].thrown = LookupFailed
    /\ \E i \in DOMAIN settled[c] : settled[c][i].thrown = TemporaryFailure

\* C2: when attempts 1..k-1 failed retryably and attempt k failed with a
\* non-retryable error, k < effective maxAttempts, the call is over: the
\* operation was invoked k times, the call threw the non-retryable error
\* with that error's message, k-1 sleeps were started (none after attempt
\* k), failedOperations grew by 1 and totalRetries by k-1.
C2_FailsFastOnNonRetryable ==
  \A c \in Calls :
    LET k == Len(settled[c])
    IN  (k >= 1 /\ k < config[c].maxAttempts /\ NonRetryableFailure(c, k)
         /\ \A i \in 1..(k - 1) : RetryableFailure(c, i)) =>
          /\ Done(c) /\ NonRetryable(c)
          /\ outcome[c].interpolated[1].messages = <<settled[c][k].thrown.text>>
          /\ invoked[c] = k
          /\ Len(sleeps[c]) = k - 1
          /\ added[c].failedOperations = 1
          /\ added[c].totalRetries = k - 1
          /\ added[c].successfulOperations = 0

C2_Witness ==
  \E c \in Calls :
    /\ Len(settled[c]) = 2 /\ config[c].maxAttempts = 3
    /\ RetryableFailure(c, 1) /\ NonRetryableFailure(c, 2)
    /\ Done(c) /\ NonRetryable(c)

\* C3: when the first k invocations failed retryably and invocation k+1
\* resolved, the call returned a result with success = TRUE, attempts = k+1
\* and k errors; k+1 is within the effective maxAttempts, the operation was
\* invoked k+1 times, successfulOperations grew by 1 and totalRetries by k.
C3_SucceedsAfterRetries ==
  \A c \in Calls :
    LET k == Len(settled[c]) - 1
    IN  (settled[c] # <<>> /\ settled[c][k + 1].ok) =>
          /\ \A i \in 1..k : RetryableFailure(c, i)
          /\ k + 1 <= config[c].maxAttempts
          /\ Done(c) /\ Returned(c)
          /\ outcome[c].success
          /\ outcome[c].attempts = k + 1
          /\ Len(outcome[c].errors) = k
          /\ invoked[c] = k + 1
          /\ added[c].successfulOperations = 1
          /\ added[c].totalRetries = k
          /\ added[c].failedOperations = 0

C3_Witness ==
  \E c \in Calls :
    /\ Len(settled[c]) = 3 /\ settled[c][3].ok
    /\ Done(c) /\ Returned(c) /\ outcome[c].attempts = 3
    /\ state.totalRetries = 2

\* C4: a finished call whose effective maxAttempts is >= 1 ended in exactly
\* one of three ways: a returned result with success = TRUE, the exhaustion
\* error, or the non-retryable error; never in 'Unexpected retry loop
\* completion'.
C4_ThreeOutcomes ==
  \A c \in Calls :
    (Done(c) /\ config[c].maxAttempts >= 1) =>
      /\ ~Unexpected(c)
      /\ \/ Returned(c) /\ outcome[c].success /\ ~Exhausted(c) /\ ~NonRetryable(c)
         \/ outcome[c].kind = "error" /\ Exhausted(c)
         \/ outcome[c].kind = "error" /\ NonRetryable(c)

C4_Witness ==
  /\ \A c \in Calls : Done(c) /\ config[c].maxAttempts >= 1
  /\ \E c \in Calls : Exhausted(c) /\ config[c].maxAttempts = 1
  /\ \E c \in Calls : Returned(c) /\ outcome[c].attempts >= 2

RECURSIVE SumOfRetries(_)
\* the sum over the calls in S of (attempts made - 1)
SumOfRetries(S) ==
  IF S = {} THEN 0
  ELSE LET c == CHOOSE x \in S : TRUE
       IN  (invoked[c] - 1) + SumOfRetries(S \ {c})

Started == {c \in Calls : pc[c] # "idle"}
AllFinished == \A c \in Calls : pc[c] \in {"idle", "done"}

\* the counters agree with what the calls did
CountersAgree ==
  /\ state.totalOperations = Cardinality(Started)
  /\ state.successfulOperations = Cardinality({c \in Started : Returned(c)})
  /\ state.failedOperations = Cardinality({c \in Started : outcome[c].kind = "error"})
  /\ state.totalRetries = SumOfRetries(Started)

\* C5: however the calls interleave at their await points, once all calls
\* have finished totalOperations is the number of calls, successfulOperations
\* the number that returned, failedOperations the number that threw, and
\* totalRetries the sum over the calls of (attempts made - 1).
C5_NoLostUpdate == AllFinished => CountersAgree

\* C5, for calls whose effective maxAttempts is >= 1 (the statement above
\* fails only for a call that makes no attempt at all)
C5_NoLostUpdateWithAttempts ==
  (AllFinished /\ \A c \in Started : config[c].maxAttempts >= 1) => CountersAgree

\* C6: a call has added exactly 1 to totalOperations from its start on, in
\* every later state whatever its outcome, and nothing before it starts; the
\* operation is never invoked before that.
C6_CountsOperationOnce ==
  \A c \in Calls :
    /\ added[c].totalOperations = IF pc[c] = "idle" THEN 0 ELSE 1
    /\ invoked[c] >= 1 => added[c].totalOperations = 1
    /\ pc[c] = "idle" => invoked[c] = 0

C6_Witness ==
  /\ \A c \in Calls : Done(c)
  /\ \E c \in Calls : Exhausted(c) /\ invoked[c] >= 2
  /\ \E c \in Calls : NonRetryable(c) \/ Returned(c)
  /\ state.totalOperations = NumCalls

\* C7: while a call is in progress it has changed none of
\* successfulOperations, failedOperations, totalRetries; a finished call has
\* incremented exactly one of successfulOperations / failedOperations, by 1.
C7_StatsOnlyAtTerminalOutcome ==
  \A c \in Calls :
    /\ pc[c] \in {"operation", "sleep"} =>
         /\ added[c].successfulOperations = 0
         /\ added[c].failedOperations = 0
         /\ added[c].totalRetries = 0
    /\ Done(c) =>
         \/ added[c].successfulOperations = 1 /\ added[c].failedOperations = 0
         \/ added[c].successfulOperations = 0 /\ added[c].failedOperations = 1

\* C7, for calls whose effective maxAttempts is >= 1
C7_StatsOnlyAtTerminalOutcomeWithAttempts ==
  \A c \in Calls :
    /\ pc[c] \in {"operation", "sleep"} =>
         /\ added[c].successfulOperations = 0
         /\ added[c].failedOperations = 0
         /\ added[c].totalRetries = 0
    /\ (Done(c) /\ config[c].maxAttempts >= 1) =>
         \/ added[c].successfulOperations = 1 /\ added[c].failedOperations = 0
         \/ added[c].successfulOperations = 0 /\ added[c].failedOperations = 1

\* the operation's first invocation failed with 'Invalid authentication
\* credentials', which has no code and matches no keyword
FirstFailureInvalidCredentials(c) ==
  /\ settled[c] # <<>>
  /\ settled[c][1] = Rejected(InvalidCredentials)

\* C8 as stated: for every effective maxAttempts >= 1, maxAttempts = 1
\* included, that call throws the non-retryable error after exactly 1 attempt.
C8_NonRetryableForEveryMaxAttempts ==
  \A c \in Calls :
    (FirstFailureInvalidCredentials(c) /\ config[c].maxAttempts >= 1) =>
      Done(c) /\ invoked[c] = 1 /\ NonRetryable(c)

\* C8 as amended: that call ends after exactly 1 attempt for every effective
\* maxAttempts >= 1; it throws the non-retryable error when maxAttempts >= 2
\* and the exhaustion error ('Operation failed after 1 attempts') when
\* maxAttempts = 1.
C8_NonRetryableUnlessLastAttempt ==
  \A c \in Calls :
    (FirstFailureInvalidCredentials(c) /\ config[c].maxAttempts >= 1) =>
      /\ Done(c) /\ invoked[c] = 1 /\ Len(sleeps[c]) = 0
      /\ config[c].maxAttempts >= 2 => NonRetryable(c)
      /\ config[c].maxAttempts = 1 =>
           Exhausted(c) /\ outcome[c].interpolated[1].attempt = 1

C8_Witness ==
  /\ \E c \in Calls :
       FirstFailureInvalidCredentials(c) /\ config[c].maxAttempts = 1 /\ Exhausted(c)
  /\ \E c \in Calls :
       FirstFailureInvalidCredentials(c) /\ config[c].maxAttempts >= 2 /\ NonRetryable(c)

\* C9: every delay a call sleeps is the delay computed from the call's
\* effective (merged) policy: its baseDelay, maxDelay, backoffMultiplier and
\* jitter, overridden or not.
C9_DelayFromEffectivePolicy ==
  \A c \in Calls :
    \A i \in DOMAIN sleeps[c] :
      \E rnd \in RandomDraws(config[c]) :
        sleeps[c][i] = calculateDelay(i, config[c], config[c], rnd)

\* C10: in a call that overrides retryableErrors, an error before the last
\* attempt that has a code and matches no keyword is retried exactly when
\* its code is in the overriding set.
C10_OverridingCodesClassify ==
  \A c \in Calls :
    "retryableErrors" \in customOptions[c].given =>
      \A i \in DOMAIN errors[c] :
        (/\ i < config[c].maxAttempts
         /\ errors[c][i].code # ""
         /\ ~MatchesPattern(toLowerCase(Chars[errors[c][i].message]))) =>
          (Len(sleeps[c]) >= i <=> has(config[c].retryableErrors, errors[c][i].code))

(***************************************************************************)
(* Properties of the policy and of getStats.  The snapshots are those      *)
(* getStats returns when called in the state at hand; both versions of     *)
(* getStats are held to each property.                                     *)
(***************************************************************************)
Snapshot == getStats(props, state)
SnapshotUnit == getStatsUnit(props, state)

\* the policy fields that both versions of getStats report
ReportedPolicy(c) ==
  [maxAttempts |-> c.maxAttempts, baseDelay |-> c.baseDelay, maxDelay |-> c.maxDelay,
   jitter |-> c.jitter, backoffMultiplier |-> c.backoffMultiplier]

\* the maxAttempts of call c: its own when it overrides it, else the one
\* the instance was created with
MaxAttemptsOf(c) ==
  IF "maxAttempts" \in customOptions[c].given
  THEN customOptions[c].maxAttempts
  ELSE Create(createdWith).maxAttempts

\* C11: whatever calls were made with overrides, the instance's policy and
\* the configuration getStats reports are the ones given to create; a call
\* that overrides maxAttempts is bounded by its own value, and a call
\* without the override by the instance's.
C11_OverrideLeavesPolicy ==
  /\ props = Create(createdWith)
  /\ Snapshot.config = Create(createdWith)
  /\ SnapshotUnit.configuration = ReportedPolicy(Create(createdWith))
  /\ \A c \in Started :
       /\ config[c].maxAttempts = MaxAttemptsOf(c)
       /\ invoked[c] <= MaxAttemptsOf(c)

C11_Witness ==
  \E c, d \in Calls :
    /\ customOptions[c].given = {"maxAttempts"} /\ customOptions[c].maxAttempts = 1
    /\ Done(c) /\ invoked[c] = 1
    /\ customOptions[d].given = {} /\ props.maxAttempts = MaxAttempts
    /\ Done(d) /\ invoked[d] = MaxAttempts

\* q is the quotient n / d, d not zero
IsQuotient(q, n, d) == q.den # 0 /\ q.num * d = n * q.den

\* C12: in every snapshot with totalOperations > 0, averageAttempts is
\* (totalOperations + totalRetries) / totalOperations.
C12_AverageAttempts ==
  state.totalOperations > 0 =>
    /\ IsQuotient(Snapshot.averageAttempts,
                  Snapshot.totalOperations + Snapshot.totalRetries,
                  Snapshot.totalOperations)
    /\ IsQuotient(SnapshotUnit.averageAttempts,
                  SnapshotUnit.totalOperations + SnapshotUnit.totalRetries,
                  SnapshotUnit.totalOperations)

\* C12 for the getStats of src/src/retry.unit.ts alone, which computes the
\* quotient
C12_AverageAttemptsUnit ==
  state.totalOperations > 0 =>
    IsQuotient(SnapshotUnit.averageAttempts,
               SnapshotUnit.totalOperations + SnapshotUnit.totalRetries,
               SnapshotUnit.totalOperations)

NoCallYet == \A c \in Calls : pc[c] = "idle"

\* the counters, successRate and averageAttempts of snapshot s are all zero,
\* no quotient having a zero denominator
AllZero(s) ==
  /\ s.totalOperations = 0 /\ s.totalRetries = 0
  /\ s.successfulOperations = 0 /\ s.failedOperations = 0
  /\ IsQuotient(s.successRate, 0, 1)
  /\ IsQuotient(s.averageAttempts, 0, 1)

\* C13: on a fresh instance getStats returns zero counters, successRate = 0
\* and averageAttempts = 0 without dividing by zero, and reports the policy
\* given to create, maxAttempts defaulting to 3 and baseDelay to 100.
C13_FreshSnapshot ==
  NoCallYet =>
    /\ AllZero(Snapshot) /\ AllZero(SnapshotUnit)
    /\ Snapshot.config.maxAttempts = Coalesce(createdWith, "maxAttempts", 3)
    /\ Snapshot.config.baseDelay = Coalesce(createdWith, "baseDelay", 100)
    /\ SnapshotUnit.configuration.maxAttempts = Coalesce(createdWith, "maxAttempts", 3)
    /\ SnapshotUnit.configuration.baseDelay = Coalesce(createdWith, "baseDelay", 100)

C13_Witness ==
  /\ NoCallYet /\ createdWith = EmptyConfig
  /\ Snapshot.config.maxAttempts = 3 /\ Snapshot.config.baseDelay = 100

\* snapshot s shows the counters as the calls have left them, and a
\* successRate within [0, 1] that is successfulOperations / totalOperations
\* once an operation was counted
LiveSnapshot(s) ==
  /\ s.totalOperations = state.totalOperations
  /\ s.totalRetries = state.totalRetries
  /\ s.successfulOperations = state.successfulOperations
  /\ s.failedOperations = state.failedOperations
  /\ s.totalOperations = Cardinality(Started)
  /\ s.successfulOperations = Cardinality({c \in Started : Returned(c)})
  /\ s.failedOperations = Cardinality({c \in Started : Exhausted(c) \/ NonRetryable(c)})
  /\ s.successRate.den > 0
  /\ 0 <= s.successRate.num /\ s.successRate.num <= s.successRate.den
  /\ s.totalOperations > 0 =>
       IsQuotient(s.successRate, s.successfulOperations, s.totalOperations)

\* C14: after any calls, getStats reports the live counters, successRate is
\* successfulOperations / totalOperations when totalOperations > 0, and
\* successRate lies in [0, 1].
C14_LiveCountersAndRate == LiveSnapshot(Snapshot) /\ LiveSnapshot(SnapshotUnit)

C14_Witness ==
  /\ \E c, d \in Calls : Returned(c) /\ Exhausted(d) /\ invoked[d] >= 2
  /\ Snapshot.totalOperations = 2 /\ Snapshot.successfulOperations = 1
  /\ Snapshot.failedOperations = 1
  /\ IsQuotient(Snapshot.successRate, 1, 2)

\* C15: getStats is a pure read: a step that returns a snapshot changes no
\* counter and no policy field, and when no step of retry ran since the
\* previous snapshot, the new snapshot equals the previous one.
C15_GetStatsIsPureRead ==
  [][stats' # NoSnapshot =>
       /\ state' = state
       /\ props' = props
       /\ stats # NoSnapshot => stats' = stats]_vars

C15_Witness ==
  /\ stats # NoSnapshot
  /\ stats.totalOperations = NumCalls
  /\ \E c \in Calls : pc[c] = "sleep"

(***************************************************************************)
(* Properties of the delays.  The policy is the one calculateDelay reads,  *)
(* the instance's; sleeps[c][i] is the delay slept after failed attempt i  *)
(* of call c.                                                              *)
(***************************************************************************)
\* c = min(baseDelay * backoffMultiplier^(a-1), maxDelay)
ClampedDelay(a, p) == Min(p.baseDelay * Pow(p.backoffMultiplier, a - 1), p.maxDelay)

\* the attempt numbers and draws of Math.random() that calculateDelay is
\* tried with, besides those of the calls
DelayAttempts == 1..(MaxAttempts + 1)
AllDraws == 0..(RandDen - 1)

DelayExample == <<100, 200, 400>>

\* C16: with jitter disabled, the delay slept after failed attempt a is
\* min(baseDelay * backoffMultiplier^(a-1), maxDelay) (an integer, so its
\* own floor), whatever Math.random() would return; with baseDelay = 100,
\* backoffMultiplier = 2, maxDelay = 5000 the delays before attempts 2, 3, 4
\* are 100, 200, 400.
C16_DelayWithoutJitter ==
  ~props.jitter =>
    /\ \A c \in Calls : \A i \in 1..Len(sleeps[c]) :
         /\ sleeps[c][i] = ClampedDelay(i, props)
         /\ \A rnd \in AllDraws : calculateDelay(i, config[c], props, rnd) = sleeps[c][i]
    /\ (props.baseDelay = 100 /\ props.backoffMultiplier = 2 /\ props.maxDelay = 5000) =>
         \A c \in Calls : \A i \in 1..Len(sleeps[c]) :
           i <= Len(DelayExample) => sleeps[c][i] = DelayExample[i]

C16_Witness ==
  \E c \in Calls : ~props.jitter /\ invoked[c] = 4 /\ sleeps[c] = DelayExample

\* delay d is within 5% of c: 0.95 * c <= d <= 1.05 * c
WithinFivePercent(d, c) == 95 * c <= 100 * d /\ 100 * d <= 105 * c

\* delay d is within 5% of c but for the rounding down:
\* floor(0.95 * c) <= d <= 1.05 * c
WithinFivePercentFloored(d, c) == (95 * c) \div 100 <= d /\ 100 * d <= 105 * c

\* C17 (as claimed): with jitter enabled, every delay that calculateDelay
\* returned to a call is never negative and within 5% of the clamped value
\* c: 0.95 * c <= delay <= 1.05 * c.
C17_JitterWithinFivePercent ==
  props.jitter =>
    \A c \in Calls : \A i \in 1..Len(sleeps[c]) :
      sleeps[c][i] >= 0 /\ WithinFivePercent(sleeps[c][i], ClampedDelay(i, props))

\* C17 (amended): with jitter enabled, every delay is never negative and
\* lies between floor(0.95 * c) and 1.05 * c.
C17_JitterWithinFivePercentFloored ==
  props.jitter =>
    /\ \A c \in Calls : \A i \in 1..Len(sleeps[c]) :
         /\ sleeps[c][i] >= 0
         /\ WithinFivePercentFloored(sleeps[c][i], ClampedDelay(i, props))
    /\ \A a \in DelayAttempts, rnd \in AllDraws :
         /\ calculateDelay(a, props, props, rnd) >= 0
         /\ WithinFivePercentFloored(calculateDelay(a, props, props, rnd),
                                     ClampedDelay(a, props))

C17_Witness ==
  \E c \in Calls :
    /\ props.jitter /\ Len(sleeps[c]) = 1
    /\ ClampedDelay(1, props) = 10 /\ sleeps[c][1] = 9

\* C18: every delay returned by calculateDelay and slept by retry is at
\* least 0 and at most maxDelay, with jitter on or off.
C18_DelayAtMostMaxDelay ==
  \A c \in Calls : \A i \in 1..Len(sleeps[c]) :
    0 <= sleeps[c][i] /\ sleeps[c][i] <= props.maxDelay

\* C18 with jitter off: the clamp holds
C18_DelayAtMostMaxDelayWithoutJitter ==
  ~props.jitter =>
    \A c \in Calls : \A i \in 1..Len(sleeps[c]) :
       0 <= sleeps[c][i] /\ sleeps[c][i] <= props.maxDelay

(***************************************************************************)
(* Properties of the errors thrown.  A thrown Error has a message only:    *)
(* what it carries is what the template literal interpolates, here         *)
(* outcome[c].interpolated, in the order of the template.                  *)
(***************************************************************************)
\* the message of the error caught at the i-th invocation of call c
CaughtMessage(c, i) == WrapError(settled[c][i].thrown).message

\* C19: the non-retryable error carries the number of attempts made and the
\* triggering error.
C19_NonRetryableCarriesAttempts ==
  \A c \in Calls :
    NonRetryable(c) =>
      LET carried == outcome[c].interpolated
          k == invoked[c]
      IN  /\ \E i \in DOMAIN carried : carried[i].attempt = k
          /\ \E i \in DOMAIN carried : carried[i].messages = <<CaughtMessage(c, k)>>

\* C19 for the triggering error alone: its message is carried
C19_NonRetryableCarriesMessage ==
  \A c \in Calls :
    NonRetryable(c) =>
      \E i \in DOMAIN outcome[c].interpolated :
        outcome[c].interpolated[i].messages = <<CaughtMessage(c, invoked[c])>>

\* C20: the exhaustion error carries the final attempt count, which is the
\* call's maxAttempts, the last error, and the errors of all attempts in
\* attempt order, one per attempt (each by its message).
C20_ExhaustionCarriesErrors ==
  \A c \in Calls :
    Exhausted(c) =>
      LET carried == outcome[c].interpolated
          n == config[c].maxAttempts
      IN  /\ invoked[c] = n /\ Len(settled[c]) = n
          /\ carried[1].attempt = n
          /\ carried[1].messages = <<CaughtMessage(c, n)>>
          /\ Len(carried[2].messages) = n
          /\ \A i \in 1..n :
               ~settled[c][i].ok /\ carried[2].messages[i] = CaughtMessage(c, i)

C20_Witness ==
  \E c \in Calls :
    /\ Exhausted(c) /\ invoked[c] = MaxAttempts
    /\ outcome[c].interpolated[1].messages = <<WrapError(InvalidCredentials).message>>
    /\ outcome[c].interpolated[2].messages[1] = WrapError(TemporaryFailure).message
    /\ outcome[c].interpolated[2].messages[2] = WrapError(LookupFailed).message

(***************************************************************************)
(* Properties of the classifier and of the loop.                           *)
(***************************************************************************)
\* e has a code that is a member of the instance's retryable code set
CodeListed(e) ==
  e.code # "" /\ e.code \in {props.retryableErrors[i] : i \in DOMAIN props.retryableErrors}

\* the lower-cased message of e contains a keyword of the fixed list
KeywordInMessage(e) ==
  \E k \in DOMAIN retryablePatterns :
    includes(toLowerCase(Chars[e.message]), retryablePatterns[k])

\* the failure of attempt i of call c was handed to the classifier
Classified(c, i) ==
  /\ i \in DOMAIN settled[c]
  /\ ~settled[c][i].ok
  /\ i # config[c].maxAttempts

\* C21: isRetryableError(e) is true exactly when e's code is in the
\* retryable code set or its lower-cased message contains a keyword of the
\* list; a call goes on after a classified failure exactly in that case,
\* and throws the non-retryable error otherwise.  (The policy never changes:
\* the verdicts are compared once per instance, and each failure when it is
\* the latest of its call.)
C21_ClassifierExact ==
  /\ NoCallYet =>
       \A v \in ThrownValues :
         isRetryableError(WrapError(v), props)
           <=> (CodeListed(WrapError(v)) \/ KeywordInMessage(WrapError(v)))
  /\ \A c \in Calls : \A i \in {Len(settled[c])} :
       Classified(c, i) =>
         LET e == WrapError(settled[c][i].thrown)
         IN  IF CodeListed(e) \/ KeywordInMessage(e)
             THEN Len(sleeps[c]) >= i /\ ~(NonRetryable(c) /\ invoked[c] = i)
             ELSE Len(sleeps[c]) = i - 1 /\ NonRetryable(c) /\ invoked[c] = i

\* a code match alone, a keyword match alone (upper case in the message),
\* then neither
C21_Witness ==
  \E c \in Calls :
    /\ NonRetryable(c) /\ Len(settled[c]) = 3
    /\ settled[c][1] = Rejected(LookupFailed)
    /\ settled[c][2] = Rejected(TemporaryFailure)
    /\ settled[c][3] = Rejected(CustomFailure)
    /\ ~KeywordInMessage(WrapError(LookupFailed))
    /\ ~CodeListed(WrapError(TemporaryFailure))

\* C22: the effective policy of every call, whether it comes from create
\* or from the merge of the call's overrides, has maxAttempts >= 1, and
\* every call invokes the operation at least once.
C22_MaxAttemptsAtLeastOne ==
  \A c \in Started : config[c].maxAttempts >= 1 /\ invoked[c] >= 1

(***************************************************************************)
(* The retry loop run alone: what a call with effective policy cfg on an   *)
(* instance with policy p has collected and returned or thrown, its        *)
(* invocations having ended as hist says, when no other call runs.  a is   *)
(* the attempt to make next and errs the errors collected so far.          *)
(***************************************************************************)
RECURSIVE RunAlone(_, _, _, _, _)
RunAlone(cfg, p, hist, a, errs) ==
  IF ~(a <= cfg.maxAttempts)
  THEN [attempts |-> a - 1, errors |-> errs, outcome |-> UnexpectedError]
  ELSE IF Len(hist) < a
  THEN [attempts |-> a, errors |-> errs, outcome |-> NoOutcome]
  ELSE IF hist[a].ok
  THEN [attempts |-> a, errors |-> errs, outcome |-> RetryResult(a, errs)]
  ELSE LET err == WrapError(hist[a].thrown)
           es == Append(errs, err)
       IN  IF a = cfg.maxAttempts
           THEN [attempts |-> a, errors |-> es, outcome |-> ExhaustedError(a, err, es)]
           ELSE IF ~isRetryableError(err, p)
           THEN [attempts |-> a, errors |-> es, outcome |-> NonRetryableError(err)]
           ELSE RunAlone(cfg, p, hist, a + 1, es)

InFlight(c) == pc[c] \in {"operation", "sleep"}

\* C23: whatever the other calls do and however the calls interleave, each
\* call has its own effective policy, and its attempts, its errors and its
\* outcome are those of the same call run alone.
C23_CallsAreIndependent ==
  \A c \in Started :
    LET alone == RunAlone(mergeOptions(customOptions[c], props), props, settled[c], 1, <<>>)
    IN  /\ config[c] = mergeOptions(customOptions[c], props)
        /\ errors[c] = alone.errors
        /\ outcome[c] = alone.outcome
        /\ invoked[c] = IF pc[c] = "sleep" THEN alone.attempts - 1 ELSE alone.attempts

C23_Witness ==
  \E c, d \in Calls :
    /\ c # d
    /\ pc[c] = "sleep" /\ attempt[c] = 2 /\ Len(errors[c]) = 2
    /\ pc[d] = "operation" /\ attempt[d] = 2 /\ Len(errors[d]) = 1
    /\ config[c].maxAttempts # config[d].maxAttempts

\* C24: when the attempt numbered maxAttempts fails, the call throws the
\* exhaustion error whether or not the error is retryable; the classifier
\* is consulted for failed attempts below maxAttempts only, so never for
\* the final attempt, and the non-retryable error is thrown below
\* maxAttempts only.
C24_ExhaustionPrecedesClassifier ==
  \A c \in Started :
    LET n == config[c].maxAttempts
    IN  /\ (Len(settled[c]) = n /\ n >= 1 /\ ~settled[c][n].ok) =>
             Done(c) /\ Exhausted(c)
        /\ classified[c] \subseteq 1..(n - 1)
        /\ classified[c] = {i \in DOMAIN settled[c] : ~settled[c][i].ok /\ i < n}
        /\ NonRetryable(c) => invoked[c] < n

\* a final attempt that fails with a non-retryable error, and one that
\* fails with a retryable error
C24_Witness ==
  \E c, d \in Calls :
    /\ Exhausted(c) /\ invoked[c] = MaxAttempts
    /\ ~isRetryableError(WrapError(settled[c][MaxAttempts].thrown), props)
    /\ classified[c] = 1..(MaxAttempts - 1)
    /\ Exhausted(d) /\ invoked[d] = 1
    /\ isRetryableError(WrapError(settled[d][1].thrown), props)
    /\ classified[d] = {}

\* every sleep of call c follows a retryable failure of an attempt below
\* maxAttempts and precedes the next attempt: none before the first
\* attempt, none after a success, a non-retryable failure or the final
\* failed attempt
SleepsOnlyBetweenAttempts(c) ==
  /\ Len(sleeps[c]) <= Len(settled[c])
  /\ \A i \in 1..Len(sleeps[c]) : RetryableFailure(c, i) /\ i < config[c].maxAttempts
  /\ pc[c] = "sleep" => Len(sleeps[c]) = invoked[c]
  /\ pc[c] = "operation" => Len(sleeps[c]) = invoked[c] - 1

\* C25: a call sleeps only between a retryable failure of an attempt below
\* maxAttempts and the next attempt, and in every finished call the number
\* of sleeps is the number of attempts made - 1.
C25_SleepsBetweenAttempts ==
  \A c \in Started :
    /\ SleepsOnlyBetweenAttempts(c)
    /\ Done(c) => Len(sleeps[c]) = invoked[c] - 1

\* C25 for the calls whose maxAttempts is at least 1
C25_SleepsBetweenAttemptsWithAttempts ==
  \A c \in Started :
    config[c].maxAttempts >= 1 =>
      /\ SleepsOnlyBetweenAttempts(c)
      /\ Done(c) => Len(sleeps[c]) = invoked[c] - 1

\* the invocations of operation by call c that have not ended yet
InvocationsInFlight(c) == invoked[c] - Len(settled[c])

\* C26: the attempts of a call are strictly sequential: a call never has
\* two invocations in flight, nor one in flight while it sleeps, and
\* attempt a+1 is invoked only after attempt a has failed and the delay
\* after it has elapsed.
C26_AttemptsAreSequential ==
  \A c \in Calls :
    /\ InvocationsInFlight(c) \in {0, 1}
    /\ InvocationsInFlight(c) = 1 <=> pc[c] = "operation"
    /\ pc[c] = "sleep" => InvocationsInFlight(c) = 0 /\ Len(sleeps[c]) = invoked[c]
    /\ \A a \in 1..(invoked[c] - 1) : ~settled[c][a].ok /\ Len(sleeps[c]) >= a
    /\ pc[c] = "operation" => Len(sleeps[c]) = invoked[c] - 1

C26_Witness ==
  \E c \in Calls :
    /\ pc[c] = "operation" /\ invoked[c] = MaxAttempts
    /\ Len(settled[c]) = MaxAttempts - 1 /\ Len(sleeps[c]) = MaxAttempts - 1

\* C27: a call never invokes the operation more than maxAttempts times, a
\* returned result has attempts in 1..maxAttempts, and when every
\* invocation and every sleep completes, every call that was started
\* finishes (returns or throws): a call starts once and stays finished, so
\* from some time on every call that was started is finished.
C27_BoundedAndTerminates ==
  /\ [](\A c \in Calls :
          /\ invoked[c] <= config[c].maxAttempts
          /\ Returned(c) => outcome[c].attempts \in 1..config[c].maxAttempts)
  /\ <>[](\A c \in Calls : pc[c] # "idle" => Done(c))

C27_Witness ==
  \E c \in Calls :
    /\ Done(c) /\ Returned(c)
    /\ config[c].maxAttempts = MaxAttempts
    /\ invoked[c] = MaxAttempts /\ outcome[c].attempts = MaxAttempts

\* the failure of an attempt that threw v, as the errors list holds it: v
\* itself when it is an Error, else an Error of its string form
FailureOf(v) ==
  IF v.isError THEN [message |-> v.text, code |-> v.code]
  ELSE [message |-> v.text, code |-> ""]

\* the attempts of call c that have failed so far
FailedAttempts(c) == {i \in DOMAIN settled[c] : ~settled[c][i].ok}

\* C28: at every point of a call the errors list holds exactly the
\* failures of the attempts made so far, entry i being the failure of
\* attempt i; a returned result has errors.length = attempts - 1, and a
\* call that throws has collected as many errors as it made attempts.
C28_ErrorsListExact ==
  \A c \in Calls :
    /\ DOMAIN errors[c] = FailedAttempts(c)
    /\ \A i \in DOMAIN errors[c] : errors[c][i] = FailureOf(settled[c][i].thrown)
    /\ Returned(c) =>
         /\ outcome[c].errors = errors[c]
         /\ Len(outcome[c].errors) = outcome[c].attempts - 1
    /\ (Done(c) /\ ~Returned(c)) => Len(errors[c]) = invoked[c]

C28_Witness ==
  \E c \in Calls :
    /\ Returned(c) /\ outcome[c].attempts = 3
    /\ outcome[c].errors = <<FailureOf(TimeoutString), FailureOf(LookupFailed)>>

\* the calls started and not yet finished
CallsInFlight == {c \in Calls : InFlight(c)}

\* C29: in every reachable state, totalOperations = successfulOperations
\* + failedOperations + the number of calls in flight; with no call in
\* flight, totalOperations = successfulOperations + failedOperations.
C29_OperationsBalance ==
  state.totalOperations =
    state.successfulOperations + state.failedOperations + Cardinality(CallsInFlight)

\* C29 for the instances all of whose calls have maxAttempts at least 1
C29_OperationsBalanceWithAttempts ==
  (\A c \in Started : config[c].maxAttempts >= 1) => C29_OperationsBalance

====
